---- MODULE Spec2Model ----
(***************************************************************************)
(* CustomHashMap (src/src/lib.rs): a fixed-capacity map from u8 keys to u8 *)
(* values, open addressing with linear probing and tombstone deletion.     *)
(*                                                                         *)
(* The state is the map's three fields (entries, size, capacity) plus a    *)
(* record of the last call (operation, arguments, result, slots visited)   *)
(* and the fields as they were before that call, so that the contract of a *)
(* call can be stated as a predicate of one state.                         *)
(*                                                                         *)
(* Three more variables are history kept by one specification each and     *)
(* left alone by the others: `inserted` (SpecTracked), `std`, the          *)
(* std::collections::HashMap of src/src/main.rs given the same calls       *)
(* (SpecStd), and `scenario`, the progress of a fixed call sequence on a   *)
(* default map (SpecScenario).                                             *)
(***************************************************************************)
EXTENDS Integers, Sequences, FiniteSets

VARIABLES entries, size, capacity, panicked, last, prev, inserted, std, scenario

vars == <<entries, size, capacity, panicked, last, prev, inserted, std, scenario>>

(* Bounds of the model: capacities 0..MaxCapacity, keys 0..MaxKey, values  *)
(* 0..MaxValue (keys and values are u8 in the code).                       *)
MaxCapacity == 2
MaxKey == 2
MaxValue == 1

Capacities == 0..MaxCapacity
Keys == 0..MaxKey
Values == 0..MaxValue

(* Option<u8> *)
None == <<>>
Some(v) == <<v>>

(* enum Slot *)
Vacant == [tag |-> "Vacant"]
Deleted == [tag |-> "Deleted"]
Occupied(k, v) == [tag |-> "Occupied", key |-> k, value |-> v]

IsOccupied(s) == s.tag = "Occupied"
Holds(s, k) == IsOccupied(s) /\ s.key = k

(* CustomHashMap::with_capacity: `capacity` Vacant slots, size 0. There is  *)
(* no check of the argument: vec![Slot::Vacant; 0] is the empty vector.    *)
with_capacity(c) ==
    [entries |-> [i \in 0..(c - 1) |-> Vacant], size |-> 0, capacity |-> c]

(* CustomHashMap::hash. With cap = 0 the remainder panics in Rust; the     *)
(* loops below test for that before they evaluate it.                      *)
hash(key, cap) == key % cap

(* (self.hash(key) + current_index) % self.capacity *)
current_hash(key, cap, current_index) == (hash(key, cap) + current_index) % cap

(* One iteration too many. *)
get_while_inclusive(current_index, cap) == current_index <= cap

(* One iteration too few: the last slot of the probe sequence is not read. *)
insert_while_short(current_index, cap) == current_index < cap - 1

(* The loop conditions of insert, get and remove. *)
insert_while(current_index, cap) == current_index < cap
get_while(current_index, cap) == current_index < cap
remove_while(current_index, cap) == current_index < cap

(* One arm of a loop body yields: whether the function returns there, the  *)
(* fields after it, and the value returned.                                *)
Step(d, es, sz, r) == [done |-> d, entries |-> es, size |-> sz, ret |-> r]

(* insert, Slot::Vacant arm *)
insert_vacant(es, sz, h, key, value) ==
    Step(TRUE, [es EXCEPT ![h] = Occupied(key, value)], sz + 1, None)

(* A Deleted slot is taken but not counted. *)
insert_deleted_nocount(es, sz, h, key, value) ==
    Step(TRUE, [es EXCEPT ![h] = Occupied(key, value)], sz, None)

(* A Deleted slot is passed over like a slot of another key. *)
insert_deleted_skips(es, sz, h, key, value) == Step(FALSE, es, sz, None)

(* insert, Slot::Deleted arm *)
insert_deleted(es, sz, h, key, value) ==
    Step(TRUE, [es EXCEPT ![h] = Occupied(key, value)], sz + 1, None)

(* The keys are not compared: any Occupied slot is taken for a match. *)
insert_occupied_any(es, sz, h, key, value) ==
    Step(TRUE, [es EXCEPT ![h] = Occupied(key, value)], sz, Some(es[h].value))

(* The value just written is returned instead of the one replaced. *)
insert_occupied_returns_new(es, sz, h, key, value) ==
    IF es[h].key = key
    THEN Step(TRUE, [es EXCEPT ![h] = Occupied(key, value)], sz, Some(value))
    ELSE Step(FALSE, es, sz, None)

(* insert, Slot::Occupied arm *)
insert_occupied(es, sz, h, key, value) ==
    IF es[h].key = key
    THEN Step(TRUE, [es EXCEPT ![h] = Occupied(key, value)], sz, Some(es[h].value))
    ELSE Step(FALSE, es, sz, None)

insert_body(es, sz, h, key, value) ==
    CASE es[h].tag = "Vacant" -> insert_vacant(es, sz, h, key, value)
      [] es[h].tag = "Deleted" -> insert_deleted(es, sz, h, key, value)
      [] es[h].tag = "Occupied" -> insert_occupied(es, sz, h, key, value)

(* The result of a call: the fields after it, the value returned, the      *)
(* slots read in order, and whether the call panicked.                     *)
Outcome(es, sz, r, vis, p) ==
    [entries |-> es, size |-> sz, ret |-> r, visited |-> vis, panicked |-> p]

RECURSIVE insert_loop(_, _, _, _, _, _, _)
insert_loop(es, sz, cap, key, value, current_index, visited) ==
    IF ~insert_while(current_index, cap)
    THEN Outcome(es, sz, None, visited, FALSE)
    ELSE IF cap = 0
    THEN Outcome(es, sz, None, visited, TRUE)
    ELSE LET h == current_hash(key, cap, current_index)
             step == insert_body(es, sz, h, key, value)
             seen == Append(visited, h)
         IN  IF step.done
             THEN Outcome(step.entries, step.size, step.ret, seen, FALSE)
             ELSE insert_loop(es, sz, cap, key, value, current_index + 1, seen)

(* CustomHashMap::insert *)
insert(es, sz, cap, key, value) == insert_loop(es, sz, cap, key, value, 0, <<>>)

(* get, Slot::Vacant arm *)
get_vacant(es, sz, h, key) == Step(TRUE, es, sz, None)

(* A tombstone ends the search, as a Vacant slot does. *)
get_deleted_stops(es, sz, h, key) == Step(TRUE, es, sz, None)

(* get, Slot::Deleted arm *)
get_deleted(es, sz, h, key) == Step(FALSE, es, sz, None)

(* get, Slot::Occupied arm *)
get_occupied(es, sz, h, key) ==
    IF es[h].key = key
    THEN Step(TRUE, es, sz, Some(es[h].value))
    ELSE Step(FALSE, es, sz, None)

get_body(es, sz, h, key) ==
    CASE es[h].tag = "Vacant" -> get_vacant(es, sz, h, key)
      [] es[h].tag = "Deleted" -> get_deleted(es, sz, h, key)
      [] es[h].tag = "Occupied" -> get_occupied(es, sz, h, key)

RECURSIVE get_loop(_, _, _, _, _, _)
get_loop(es, sz, cap, key, current_index, visited) ==
    IF ~get_while(current_index, cap)
    THEN Outcome(es, sz, None, visited, FALSE)
    ELSE IF cap = 0
    THEN Outcome(es, sz, None, visited, TRUE)
    ELSE LET h == current_hash(key, cap, current_index)
             step == get_body(es, sz, h, key)
             seen == Append(visited, h)
         IN  IF step.done
             THEN Outcome(step.entries, step.size, step.ret, seen, FALSE)
             ELSE get_loop(es, sz, cap, key, current_index + 1, seen)

(* CustomHashMap::get *)
get(es, sz, cap, key) == get_loop(es, sz, cap, key, 0, <<>>)

(* The counter is decremented although nothing was removed. *)
remove_vacant_counts(es, sz, h, key) == Step(TRUE, es, sz - 1, None)

(* remove, Slot::Vacant arm *)
remove_vacant(es, sz, h, key) == Step(TRUE, es, sz, None)

(* A tombstone ends remove's search, as a Vacant slot does. *)
remove_deleted_stops(es, sz, h, key) == Step(TRUE, es, sz, None)

(* remove, Slot::Deleted arm *)
remove_deleted(es, sz, h, key) == Step(FALSE, es, sz, None)

(* The keys are not compared: the first Occupied slot is removed. *)
remove_occupied_any(es, sz, h, key) ==
    Step(TRUE, [es EXCEPT ![h] = Deleted], sz - 1, Some(es[h].value))

(* The removed slot is reset to Vacant instead of Deleted. *)
remove_occupied_vacates(es, sz, h, key) ==
    IF es[h].key = key
    THEN Step(TRUE, [es EXCEPT ![h] = Vacant], sz - 1, Some(es[h].value))
    ELSE Step(FALSE, es, sz, None)

(* remove, Slot::Occupied arm *)
remove_occupied(es, sz, h, key) ==
    IF es[h].key = key
    THEN Step(TRUE, [es EXCEPT ![h] = Deleted], sz - 1, Some(es[h].value))
    ELSE Step(FALSE, es, sz, None)

remove_body(es, sz, h, key) ==
    CASE es[h].tag = "Vacant" -> remove_vacant(es, sz, h, key)
      [] es[h].tag = "Deleted" -> remove_deleted(es, sz, h, key)
      [] es[h].tag = "Occupied" -> remove_occupied(es, sz, h, key)

RECURSIVE remove_loop(_, _, _, _, _, _)
remove_loop(es, sz, cap, key, current_index, visited) ==
    IF ~remove_while(current_index, cap)
    THEN Outcome(es, sz, None, visited, FALSE)
    ELSE IF cap = 0
    THEN Outcome(es, sz, None, visited, TRUE)
    ELSE LET h == current_hash(key, cap, current_index)
             step == remove_body(es, sz, h, key)
             seen == Append(visited, h)
         IN  IF step.done
             THEN Outcome(step.entries, step.size, step.ret, seen, FALSE)
             ELSE remove_loop(es, sz, cap, key, current_index + 1, seen)

(* CustomHashMap::remove *)
remove(es, sz, cap, key) == remove_loop(es, sz, cap, key, 0, <<>>)

(* CustomHashMap::len, CustomHashMap::is_empty *)
len(sz) == sz
is_empty(sz) == sz = 0

----------------------------------------------------------------------------
(* The state machine: a map is constructed, then any caller makes any      *)
(* sequence of calls, one at a time.                                       *)

Call(op, key, value, out) ==
    [op |-> op, key |-> key, value |-> value, ret |-> out.ret, visited |-> out.visited]

Before == [entries |-> entries, size |-> size, inserted |-> inserted]

(* The call sequence of the duplicate-key scenario, and how far a run has  *)
(* followed it: step is the number of its calls made so far, from          *)
(* construction and with no other call between (Off once the run has left  *)
(* it); removes counts the remove(9) calls made after its last call, only  *)
(* get calls being made besides; calls counts all calls.                   *)
Script ==
    << [op |-> "insert", key |-> 1, value |-> 10],
       [op |-> "insert", key |-> 9, value |-> 90],
       [op |-> "remove", key |-> 1, value |-> 0],
       [op |-> "insert", key |-> 9, value |-> 99] >>

ScenarioKeys == {1, 9}
ScenarioValues == {10, 90, 99}
Off == 0 - 1

Advance(sc, op, k, v) ==
    LET call == [op |-> op, key |-> k, value |-> v]
        n == sc.calls + 1
    IN  IF sc.step \in 0..(Len(Script) - 1)
        THEN IF call = Script[sc.step + 1]
             THEN [step |-> sc.step + 1, removes |-> 0, calls |-> n]
             ELSE [step |-> Off, removes |-> 0, calls |-> n]
        ELSE IF sc.step = Len(Script) /\ op = "remove" /\ k = 9
        THEN [step |-> sc.step, removes |-> sc.removes + 1, calls |-> n]
        ELSE IF sc.step = Len(Script) /\ op = "get"
        THEN [step |-> sc.step, removes |-> sc.removes, calls |-> n]
        ELSE [step |-> Off, removes |-> 0, calls |-> n]

(* std::collections::HashMap<u8, u8>: a function from the keys it holds to *)
(* their values, and the value its last call returned.                     *)
StdNew == [map |-> <<>>, ret |-> None]

std_insert(m, k, v) ==
    [map |-> [x \in DOMAIN m \cup {k} |-> IF x = k THEN v ELSE m[x]],
     ret |-> IF k \in DOMAIN m THEN Some(m[k]) ELSE None]

std_get(m, k) ==
    [map |-> m, ret |-> IF k \in DOMAIN m THEN Some(m[k]) ELSE None]

std_remove(m, k) ==
    [map |-> [x \in DOMAIN m \ {k} |-> m[x]],
     ret |-> IF k \in DOMAIN m THEN Some(m[k]) ELSE None]

std_len(m) == [map |-> m, ret |-> Some(Cardinality(DOMAIN m))]

(* The state after with_capacity(c). *)
Construct(c) ==
    /\ entries = with_capacity(c).entries
    /\ size = with_capacity(c).size
    /\ capacity = with_capacity(c).capacity
    /\ panicked = FALSE
    /\ last = [op |-> "with_capacity", key |-> 0, value |-> 0,
               ret |-> None, visited |-> <<>>]
    /\ prev = [entries |-> with_capacity(c).entries, size |-> 0, inserted |-> {}]
    /\ inserted = {}
    /\ std = StdNew
    /\ scenario = [step |-> 0, removes |-> 0, calls |-> 0]

Init == \E c \in Capacities : Construct(c)

InsertStep(k, v) ==
    /\ ~panicked
    /\ LET out == insert(entries, size, capacity, k, v)
       IN  /\ entries' = out.entries
           /\ size' = out.size
           /\ panicked' = out.panicked
           /\ last' = Call("insert", k, v, out)
    /\ prev' = Before
    /\ UNCHANGED capacity

CallInsert(k, v) == InsertStep(k, v) /\ UNCHANGED <<inserted, std, scenario>>

GetStep(k) ==
    /\ ~panicked
    /\ LET out == get(entries, size, capacity, k)
       IN  /\ entries' = out.entries
           /\ size' = out.size
           /\ panicked' = out.panicked
           /\ last' = Call("get", k, 0, out)
    /\ prev' = Before
    /\ UNCHANGED capacity

CallGet(k) == GetStep(k) /\ UNCHANGED <<inserted, std, scenario>>

RemoveStep(k) ==
    /\ ~panicked
    /\ LET out == remove(entries, size, capacity, k)
       IN  /\ entries' = out.entries
           /\ size' = out.size
           /\ panicked' = out.panicked
           /\ last' = Call("remove", k, 0, out)
    /\ prev' = Before
    /\ UNCHANGED capacity

CallRemove(k) == RemoveStep(k) /\ UNCHANGED <<inserted, std, scenario>>

LenStep ==
    /\ ~panicked
    /\ last' = [op |-> "len", key |-> 0, value |-> 0,
                ret |-> Some(len(size)), visited |-> <<>>]
    /\ prev' = Before
    /\ UNCHANGED <<entries, size, capacity, panicked>>

CallLen == LenStep /\ UNCHANGED <<inserted, std, scenario>>

CallIsEmpty ==
    /\ ~panicked
    /\ last' = [op |-> "is_empty", key |-> 0, value |-> 0,
                ret |-> Some(is_empty(size)), visited |-> <<>>]
    /\ prev' = Before
    /\ UNCHANGED <<entries, size, capacity, panicked, inserted, std, scenario>>

Next ==
    \/ \E k \in Keys, v \in Values : CallInsert(k, v)
    \/ \E k \in Keys : CallGet(k)
    \/ \E k \in Keys : CallRemove(k)
    \/ CallLen
    \/ CallIsEmpty

Spec == Init /\ [][Next]_vars

(* The same machine, also recording in `inserted` every key that has been  *)
(* passed to insert since construction (Spec leaves `inserted` empty).     *)
TrackedInsert(k, v) ==
    /\ InsertStep(k, v)
    /\ inserted' = inserted \cup {k}
    /\ UNCHANGED <<std, scenario>>

NextTracked ==
    \/ \E k \in Keys, v \in Values : TrackedInsert(k, v)
    \/ \E k \in Keys : CallGet(k)
    \/ \E k \in Keys : CallRemove(k)
    \/ CallLen
    \/ CallIsEmpty

SpecTracked == Init /\ [][NextTracked]_vars

(* A map whose capacity is larger than every key, as in the harness        *)
(* (capacity > 1000, keys u8), and a std HashMap given the same calls.     *)
WideCapacities == (MaxKey + 1)..(MaxKey + 2)

InitStd == \E c \in WideCapacities : Construct(c)

StdInsert(k, v) ==
    /\ InsertStep(k, v)
    /\ std' = std_insert(std.map, k, v)
    /\ UNCHANGED <<inserted, scenario>>

StdGet(k) ==
    /\ GetStep(k)
    /\ std' = std_get(std.map, k)
    /\ UNCHANGED <<inserted, scenario>>

StdRemove(k) ==
    /\ RemoveStep(k)
    /\ std' = std_remove(std.map, k)
    /\ UNCHANGED <<inserted, scenario>>

StdLen ==
    /\ LenStep
    /\ std' = std_len(std.map)
    /\ UNCHANGED <<inserted, scenario>>

NextStd ==
    \/ \E k \in Keys, v \in Values : StdInsert(k, v)
    \/ \E k \in Keys : StdGet(k)
    \/ \E k \in Keys : StdRemove(k)
    \/ StdLen

SpecStd == InitStd /\ [][NextStd]_vars

(* A default map (capacity 8) and at most MaxCalls calls with the keys and *)
(* values of the duplicate-key scenario.                                   *)
DefaultCapacity == 8
MaxCalls == 6

InitScenario == Construct(DefaultCapacity)

ScenarioInsert(k, v) ==
    /\ scenario.calls < MaxCalls
    /\ InsertStep(k, v)
    /\ scenario' = Advance(scenario, "insert", k, v)
    /\ UNCHANGED <<inserted, std>>

ScenarioGet(k) ==
    /\ scenario.calls < MaxCalls
    /\ GetStep(k)
    /\ scenario' = Advance(scenario, "get", k, 0)
    /\ UNCHANGED <<inserted, std>>

ScenarioRemove(k) ==
    /\ scenario.calls < MaxCalls
    /\ RemoveStep(k)
    /\ scenario' = Advance(scenario, "remove", k, 0)
    /\ UNCHANGED <<inserted, std>>

NextScenario ==
    \/ \E k \in ScenarioKeys, v \in ScenarioValues : ScenarioInsert(k, v)
    \/ \E k \in ScenarioKeys : ScenarioGet(k)
    \/ \E k \in ScenarioKeys : ScenarioRemove(k)

SpecScenario == InitScenario /\ [][NextScenario]_vars

----------------------------------------------------------------------------
(* What the properties below read. *)

Slots == DOMAIN entries

OccupiedCount(es) == Cardinality({i \in DOMAIN es : es[i].tag = "Occupied"})
VacantCount(es) == Cardinality({i \in DOMAIN es : es[i].tag = "Vacant"})

(* get(key) on the map as it is now, and as it was before the last call *)
Lookup(k) == get(entries, size, capacity, k).ret
LookupBefore(k) == get(prev.entries, prev.size, capacity, k).ret

(* The positions of key k's probe sequence from its home up to slot i. *)
ProbePath(k, i) ==
    {current_hash(k, capacity, d) : d \in 0..((i - hash(k, capacity)) % capacity)}

(* C1: len() is the number of Occupied slots, and 0 <= len() <= capacity,  *)
(* in every state reachable by insert/get/remove calls.                    *)
SizeInvariant ==
    /\ len(size) = OccupiedCount(entries)
    /\ 0 <= len(size)
    /\ len(size) <= capacity

(* An insert that reuses a tombstone and fills the table. *)
SizeInvariantWitness ==
    /\ last.op = "insert"
    /\ capacity >= 2
    /\ \E i \in Slots : prev.entries[i].tag = "Deleted" /\ IsOccupied(entries[i])
    /\ prev.size = capacity - 1
    /\ size = capacity

(* C2: no slot on the probe sequence from home(k) up to an Occupied slot   *)
(* holding k is Vacant, and get(k) returns a value for every such k.       *)
ProbeChainReachable ==
    \A i \in Slots :
        IsOccupied(entries[i]) =>
            /\ \A j \in ProbePath(entries[i].key, i) : entries[j].tag # "Vacant"
            /\ Lookup(entries[i].key) # None

(* After a remove, a key sits past a tombstone at its home, wrapped round  *)
(* the end of the table.                                                   *)
ProbeChainReachableWitness ==
    /\ last.op = "remove"
    /\ last.ret # None
    /\ \E i \in Slots :
           /\ IsOccupied(entries[i])
           /\ i < hash(entries[i].key, capacity)
           /\ entries[hash(entries[i].key, capacity)].tag = "Deleted"

(* C3: a slot that is Deleted or Occupied before a call is not Vacant      *)
(* after it, a successful remove leaves Deleted in the slot it matched,    *)
(* and the number of Vacant slots never increases.                         *)
TombstoneMonotonic ==
    /\ \A i \in Slots : prev.entries[i].tag # "Vacant" => entries[i].tag # "Vacant"
    /\ VacantCount(entries) <= VacantCount(prev.entries)
    /\ (last.op = "remove" /\ last.ret # None) =>
           \E i \in Slots :
               /\ Holds(prev.entries[i], last.key)
               /\ entries[i] = Deleted
               /\ \A j \in Slots \ {i} : entries[j] = prev.entries[j]

(* A remove that found its key: the slot is now a tombstone. *)
TombstoneMonotonicWitness ==
    /\ last.op = "remove"
    /\ last.ret # None
    /\ \E i \in Slots : Holds(prev.entries[i], last.key) /\ entries[i] = Deleted

(* Every slot is Occupied by a key other than k. *)
FullOfOthers(es, k) == \A i \in DOMAIN es : IsOccupied(es[i]) /\ es[i].key # k

NoVacant(es) == \A i \in DOMAIN es : es[i].tag # "Vacant"
Absent(es, k) == \A i \in DOMAIN es : ~Holds(es[i], k)

(* C4: when get(key) returned a value old before insert(key, new), the     *)
(* insert returns old, get(key) then returns new, and len() is unchanged.  *)
UpdateSemantics ==
    (last.op = "insert" /\ LookupBefore(last.key) # None) =>
        /\ last.ret = LookupBefore(last.key)
        /\ Lookup(last.key) = Some(last.value)
        /\ len(size) = len(prev.size)

(* C5: when get(key) returned a value v before remove(key), the remove     *)
(* returns v, len() drops by one, and get(key) then returns absent.        *)
Deletion ==
    (last.op = "remove" /\ LookupBefore(last.key) # None) =>
        /\ last.ret = LookupBefore(last.key)
        /\ len(size) = len(prev.size) - 1
        /\ Lookup(last.key) = None

(* C6 as stated: insert of a key never passed to insert before returns     *)
(* absent, and get(key) then returns the value (on a map constructed with  *)
(* the capacity > 0 that construction requires).                           *)
RoundTrip ==
    (capacity > 0 /\ last.op = "insert" /\ last.key \notin prev.inserted) =>
        /\ last.ret = None
        /\ Lookup(last.key) = Some(last.value)

(* C6 amended: insert of a key never passed to insert before returns       *)
(* absent; and if some slot was Vacant or Deleted before the call,         *)
(* get(key) then returns the value.                                        *)
RoundTripWithRoom ==
    (last.op = "insert" /\ last.key \notin prev.inserted) =>
        /\ last.ret = None
        /\ (\E i \in Slots : ~IsOccupied(prev.entries[i])) =>
               Lookup(last.key) = Some(last.value)

(* A first insert of a key whose home slot is Occupied by another key and  *)
(* which lands in a tombstone.                                             *)
RoundTripWithRoomWitness ==
    /\ last.op = "insert"
    /\ last.key \notin prev.inserted
    /\ capacity >= 2
    /\ IsOccupied(prev.entries[hash(last.key, capacity)])
    /\ \E i \in Slots : prev.entries[i].tag = "Deleted" /\ Holds(entries[i], last.key)
    /\ Lookup(last.key) = Some(last.value)

(* C7: insert(k, v) into a table whose every slot is Occupied by a key     *)
(* other than k returns absent and changes no slot and not len(); every    *)
(* get returns what it returned before, and get(k) stays absent.           *)
FullTableNoOp ==
    (last.op = "insert" /\ FullOfOthers(prev.entries, last.key)) =>
        /\ last.ret = None
        /\ entries = prev.entries
        /\ len(size) = len(prev.size)
        /\ \A k \in Keys : Lookup(k) = LookupBefore(k)
        /\ Lookup(last.key) = None

(* An insert into a full table of two or more slots. *)
FullTableNoOpWitness ==
    /\ last.op = "insert"
    /\ capacity >= 2
    /\ FullOfOthers(prev.entries, last.key)
    /\ len(prev.size) = capacity

(* C8: for k' # k, insert(k, v) that is not the full-table no-op, or       *)
(* remove(k), leaves the result of get(k') unchanged.                      *)
KeyIsolation ==
    (\/ last.op = "insert" /\ ~FullOfOthers(prev.entries, last.key)
     \/ last.op = "remove") =>
        \A k \in Keys \ {last.key} : Lookup(k) = LookupBefore(k)

(* A remove of the key at the home slot of a chain, another key with the   *)
(* same home being held further along the chain.                           *)
KeyIsolationWitness ==
    /\ last.op = "remove"
    /\ last.ret # None
    /\ \E k \in Keys \ {last.key} :
           /\ hash(k, capacity) = hash(last.key, capacity)
           /\ entries[hash(k, capacity)] = Deleted
           /\ Lookup(k) # None

(* C9: a map constructed with capacity 0 is never one on which insert,     *)
(* get or remove has been called and has returned normally.                *)
ZeroCapacityRejected ==
    ~(capacity = 0 /\ last.op \in {"insert", "get", "remove"} /\ ~panicked)

(* C10: every insert, get and remove returns after reading at most         *)
(* capacity slots, no position twice; with no Vacant slot in the table,    *)
(* get and remove of a key held by no slot return absent.                  *)
BoundedTermination ==
    last.op \in {"insert", "get", "remove"} =>
        /\ ~panicked
        /\ Len(last.visited) <= capacity
        /\ \A a, b \in 1..Len(last.visited) :
               a # b => last.visited[a] # last.visited[b]
        /\ (/\ last.op \in {"get", "remove"}
            /\ NoVacant(prev.entries)
            /\ Absent(prev.entries, last.key)) => last.ret = None

(* A get of an absent key in a table of tombstones and other keys only,    *)
(* which reads every slot once.                                            *)
BoundedTerminationWitness ==
    /\ last.op = "get"
    /\ capacity >= 2
    /\ NoVacant(prev.entries)
    /\ Absent(prev.entries, last.key)
    /\ \E i \in Slots : prev.entries[i] = Deleted
    /\ \E i \in Slots : IsOccupied(prev.entries[i])
    /\ Len(last.visited) = capacity
    /\ last.ret = None

(* The slot a call read last: for a get that found its key, the slot it   *)
(* returned the value of.                                                  *)
LastRead(visited) == visited[Len(visited)]

(* C11: remove(key) returns what get(key) returns in the same state, and   *)
(* when it returns a value, the slot it turns into Deleted is the slot     *)
(* get(key) reads the value from.                                          *)
RemoveAgreesWithGet ==
    last.op = "remove" =>
        /\ last.ret = LookupBefore(last.key)
        /\ last.ret # None =>
               LET g == get(prev.entries, prev.size, capacity, last.key)
               IN  /\ prev.entries[LastRead(g.visited)].tag = "Occupied"
                   /\ entries[LastRead(g.visited)] = Deleted
                   /\ \A j \in Slots \ {LastRead(g.visited)} :
                          entries[j] = prev.entries[j]

(* A remove that passed a tombstone before it found its key. *)
RemoveAgreesWithGetWitness ==
    /\ last.op = "remove"
    /\ last.ret # None
    /\ Len(last.visited) >= 2
    /\ prev.entries[last.visited[1]] = Deleted

(* C12: if get(key) is absent, insert(key, v) returns None; if insert      *)
(* returns Some(old), get(key) returned Some(old) just before the call.    *)
InsertReportsPrevious ==
    last.op = "insert" =>
        /\ LookupBefore(last.key) = None => last.ret = None
        /\ last.ret # None => LookupBefore(last.key) = last.ret

(* An insert that replaced a different value, found past another key. *)
InsertReportsPreviousWitness ==
    /\ last.op = "insert"
    /\ last.ret # None
    /\ last.ret # Some(last.value)
    /\ Len(last.visited) >= 2

(* C13: len() is the number of distinct keys for which get returns a       *)
(* value.                                                                  *)
LenCountsKeys ==
    len(size) = Cardinality({k \in Keys : Lookup(k) # None})

Changed == {i \in Slots : entries[i] # prev.entries[i]}

(* C18: an insert or remove changes at most one slot, and only Vacant ->   *)
(* Occupied, Deleted -> Occupied, Occupied -> Occupied of the same key, or *)
(* Occupied -> Deleted.                                                    *)
SlotLifecycle ==
    last.op \in {"insert", "remove"} =>
        /\ Cardinality(Changed) <= 1
        /\ \A i \in Changed :
               \/ prev.entries[i].tag = "Vacant" /\ IsOccupied(entries[i])
               \/ prev.entries[i].tag = "Deleted" /\ IsOccupied(entries[i])
               \/ /\ IsOccupied(prev.entries[i])
                  /\ IsOccupied(entries[i])
                  /\ entries[i].key = prev.entries[i].key
               \/ IsOccupied(prev.entries[i]) /\ entries[i].tag = "Deleted"

(* An insert that changed the value of a key found past another key's slot. *)
SlotLifecycleWitness ==
    /\ last.op = "insert"
    /\ Len(last.visited) >= 2
    /\ \E i \in Changed : IsOccupied(prev.entries[i]) /\ IsOccupied(entries[i])

(* C19: get, len and is_empty change no slot and not the counter;          *)
(* is_empty() is true exactly when len() is 0; a remove that returns       *)
(* absent changes nothing.                                                 *)
ReadOnlyQueries ==
    /\ last.op \in {"get", "len", "is_empty"} =>
           entries = prev.entries /\ size = prev.size
    /\ last.op = "is_empty" => last.ret = Some(len(size) = 0)
    /\ (last.op = "remove" /\ last.ret = None) =>
           entries = prev.entries /\ size = prev.size

(* A remove of an absent key that read two slots of a non-empty map and    *)
(* stopped at a Vacant slot.                                               *)
ReadOnlyQueriesWitness ==
    /\ last.op = "remove"
    /\ last.ret = None
    /\ Len(last.visited) >= 2
    /\ prev.entries[LastRead(last.visited)] = Vacant
    /\ size > 0

(* C20: when some slot is Vacant or Deleted, or get(key) already returns a *)
(* value, get(key) right after insert(key, value) returns value.           *)
InsertThenGet ==
    (/\ last.op = "insert"
     /\ \/ \E i \in Slots : ~IsOccupied(prev.entries[i])
        \/ LookupBefore(last.key) # None) =>
        Lookup(last.key) = Some(last.value)

(* An insert into a table without a Vacant slot that reused a tombstone    *)
(* past the slot of another key.                                           *)
InsertThenGetWitness ==
    /\ last.op = "insert"
    /\ last.ret = None
    /\ NoVacant(prev.entries)
    /\ Len(last.visited) >= 2
    /\ prev.entries[LastRead(last.visited)] = Deleted
    /\ Lookup(last.key) = Some(last.value)

(* C14: with a capacity larger than every key, every insert, get, remove  *)
(* and len call returns what the same call on a std HashMap given the same *)
(* calls returns, and every key occupies only its home slot.               *)
MatchesStd ==
    /\ last.op \in {"insert", "get", "remove", "len"} => last.ret = std.ret
    /\ \A i \in Slots :
           IsOccupied(entries[i]) => i = hash(entries[i].key, capacity)
    /\ \A k \in Keys : Lookup(k) = std_get(std.map, k).ret

(* An insert that replaced the value of a key removed and inserted again   *)
(* before, in a map holding another key too.                               *)
MatchesStdWitness ==
    /\ last.op = "insert"
    /\ last.ret # None
    /\ last.ret # Some(last.value)
    /\ std.ret = last.ret
    /\ size >= 2
    /\ \E i \in Slots : entries[i] = Deleted

====
